---- MODULE Spec2Model ----
(***************************************************************************)
(* Model of the `hollow` attribute macro (src/src/lib.rs).                 *)
(*                                                                         *)
(* One invocation hollow(attr, item) is modelled statement by statement:   *)
(* the attribute argument is interpreted into body_tokens (lines 41-54),   *)
(* then the item is scanned up to its first top-level brace Group and a    *)
(* new brace Group holding body_tokens is appended (lines 56-80).          *)
(* The compiler may expand the macro again on the item it produced         *)
(* (stacked attributes); Reinvoke models that.                             *)
(***************************************************************************)
EXTENDS Naturals, Sequences, FiniteSets, TLC

VARIABLES attr, item, pc, iter, next, body_tokens, item_iter, tokens, ret,
          panic, pass, item0

vars == <<attr, item, pc, iter, next, body_tokens, item_iter, tokens, ret,
          panic, pass, item0>>

(***************************************************************************)
(* Bounds of the model.                                                    *)
(***************************************************************************)
MaxAttrLen == 3
MaxItemLen == 3
MaxPasses == 2

(***************************************************************************)
(* proc_macro token trees.                                                 *)
(***************************************************************************)
Delimiter == {"Parenthesis", "Brace", "Bracket", "None"}

Ident(s, r) == [kind |-> "Ident", text |-> s, raw |-> r]

Punct(c, sp) == [kind |-> "Punct", ch |-> c, spacing |-> sp]

Literal(s) == [kind |-> "Literal", text |-> s]

Group(d, ts) == [kind |-> "Group", delimiter |-> d, stream |-> ts]

\* A to_string() that forgets the r# prefix of a raw identifier.
IdentToStringIgnoresRaw(id) == id.text

\* Ident::to_string(): a raw identifier prints with its r# prefix.
IdentToString(id) == IF id.raw THEN "r#" \o id.text ELSE id.text

\* Punct::as_char(): the character, without the spacing.
AsChar(p) == p.ch

\* A match that stops at a Group of any delimiter.
IsBodyGroupAnyDelimiter(token) == token.kind = "Group"

\* A match that never stops.
IsBodyGroupNever(token) == FALSE

\* The match of lines 70-71: a Group whose delimiter is Delimiter::Brace.
IsBodyGroup(token) == token.kind = "Group" /\ token.delimiter = "Brace"

\* The path without its call: "Default::default".
DefaultBodyNoCall ==
    << Ident("Default", FALSE), Punct(":", "Joint"), Punct(":", "Alone"),
       Ident("default", FALSE) >>

\* "Default::default()".parse().unwrap()
DefaultBody ==
    << Ident("Default", FALSE), Punct(":", "Joint"), Punct(":", "Alone"),
       Ident("default", FALSE), Group("Parenthesis", <<>>) >>

(***************************************************************************)
(* Diagnostics of a panicking expansion.                                   *)
(***************************************************************************)
NoPanic == [msg |-> "", left |-> "", right |-> ""]

Panic(m) == [msg |-> m, left |-> "", right |-> ""]

AssertEqFailed(l, r) ==
    [msg |-> "assertion left == right failed", left |-> l, right |-> r]

(***************************************************************************)
(* Inputs.                                                                 *)
(***************************************************************************)
SeqsUpTo(S, n) == UNION {[1..k -> S] : k \in 0..n}

AttrTokens ==
    { Ident("value", FALSE), Ident("value", TRUE), Ident("other", FALSE),
      Punct("=", "Alone"), Punct("+", "Alone"), Literal("42"),
      Group("Brace", <<Literal("42")>>) }

ItemTokens ==
    { Ident("fn", FALSE), Punct(";", "Alone"),
      Group("Parenthesis", <<Group("Brace", <<>>)>>),
      Group("Bracket", <<>>),
      Group("None", <<Literal("1")>>),
      Group("Brace", <<Ident("fn", FALSE)>>),
      Group("Brace", <<>>) }

Attrs == SeqsUpTo(AttrTokens, MaxAttrLen)

Items == SeqsUpTo(ItemTokens, MaxItemLen)

\* Arguments and items every combination is tried with.
CoreAttrs ==
    { <<>>,
      << Ident("value", FALSE), Punct("=", "Alone"), Literal("42") >>,
      << Ident("value", FALSE), Punct("=", "Alone"),
         Group("Brace", <<Literal("42")>>), Punct("+", "Alone") >> }

CoreItems ==
    { << Ident("fn", FALSE), Group("Parenthesis", <<>>),
         Group("Brace", <<Literal("1")>>) >>,
      << Ident("fn", FALSE), Group("Parenthesis", <<>>), Punct(";", "Alone") >> }

Inputs == (Attrs \X CoreItems) \cup (CoreAttrs \X Items)

(***************************************************************************)
(* The rewriting of lines 56-80 as a function of the item and the body.   *)
(***************************************************************************)
RECURSIVE Scan(_, _)
Scan(it, acc) ==
    IF it = <<>> THEN acc
    ELSE IF IsBodyGroup(Head(it)) THEN acc
    ELSE Scan(Tail(it), Append(acc, Head(it)))

Rewrite(i, body) == Append(Scan(i, <<>>), Group("Brace", body))

(***************************************************************************)
(* Initial state: the host calls hollow(attr, item).                       *)
(***************************************************************************)
Init ==
    /\ \E in \in Inputs : attr = in[1] /\ item = in[2] /\ item0 = in[2]
    /\ pc = "attr_is_empty"
    /\ iter = <<>>
    /\ next = <<>>
    /\ body_tokens = <<>>
    /\ item_iter = <<>>
    /\ tokens = <<>>
    /\ ret = <<>>
    /\ panic = NoPanic
    /\ pass = 1

(***************************************************************************)
(* Lines 41-54: the attribute argument.                                    *)
(***************************************************************************)
\* line 41-42: if attr.is_empty() { "Default::default()".parse().unwrap() }
AttrIsEmpty ==
    /\ pc = "attr_is_empty"
    /\ attr = <<>>
    /\ body_tokens' = DefaultBody
    /\ pc' = "vec_new"
    /\ UNCHANGED <<attr, item, iter, next, item_iter, tokens, ret, panic, pass, item0>>

\* line 43-44: else { let mut iter = attr.into_iter();
AttrIntoIter ==
    /\ pc = "attr_is_empty"
    /\ attr # <<>>
    /\ iter' = attr
    /\ pc' = "next_ident"
    /\ UNCHANGED <<attr, item, next, body_tokens, item_iter, tokens, ret, panic, pass, item0>>

\* line 45: let Some(TokenTree::Ident(next)) = iter.next()
NextIdent ==
    /\ pc = "next_ident"
    /\ iter # <<>>
    /\ Head(iter).kind = "Ident"
    /\ next' = <<Head(iter)>>
    /\ iter' = Tail(iter)
    /\ pc' = "assert_value"
    /\ UNCHANGED <<attr, item, body_tokens, item_iter, tokens, ret, panic, pass, item0>>

\* line 45-47: else { panic!("invalid attr argument") }
NextIdentElse ==
    /\ pc = "next_ident"
    /\ ~(iter # <<>> /\ Head(iter).kind = "Ident")
    /\ iter' = IF iter = <<>> THEN iter ELSE Tail(iter)
    /\ panic' = Panic("invalid attr argument")
    /\ pc' = "panicked"
    /\ UNCHANGED <<attr, item, next, body_tokens, item_iter, tokens, ret, pass, item0>>

\* line 48: assert_eq!("value", &next.to_string());
AssertValue ==
    /\ pc = "assert_value"
    /\ IdentToString(next[1]) = "value"
    /\ pc' = "next_punct"
    /\ UNCHANGED <<attr, item, iter, next, body_tokens, item_iter, tokens, ret, panic, pass, item0>>

AssertValueFailed ==
    /\ pc = "assert_value"
    /\ IdentToString(next[1]) # "value"
    /\ panic' = AssertEqFailed("value", IdentToString(next[1]))
    /\ pc' = "panicked"
    /\ UNCHANGED <<attr, item, iter, next, body_tokens, item_iter, tokens, ret, pass, item0>>

\* line 49: let Some(TokenTree::Punct(next)) = iter.next()
NextPunct ==
    /\ pc = "next_punct"
    /\ iter # <<>>
    /\ Head(iter).kind = "Punct"
    /\ next' = <<Head(iter)>>
    /\ iter' = Tail(iter)
    /\ pc' = "assert_eq_char"
    /\ UNCHANGED <<attr, item, body_tokens, item_iter, tokens, ret, panic, pass, item0>>

\* A missing or foreign second token taken for an empty value.
NextPunctElseAccepts ==
    /\ pc = "next_punct"
    /\ ~(iter # <<>> /\ Head(iter).kind = "Punct")
    /\ iter' = IF iter = <<>> THEN iter ELSE Tail(iter)
    /\ pc' = "from_iter"
    /\ UNCHANGED <<attr, item, next, body_tokens, item_iter, tokens, ret, panic, pass, item0>>

\* line 49-51: else { panic!("invalid attr argument") }
NextPunctElse ==
    /\ pc = "next_punct"
    /\ ~(iter # <<>> /\ Head(iter).kind = "Punct")
    /\ iter' = IF iter = <<>> THEN iter ELSE Tail(iter)
    /\ panic' = Panic("invalid attr argument")
    /\ pc' = "panicked"
    /\ UNCHANGED <<attr, item, next, body_tokens, item_iter, tokens, ret, pass, item0>>

\* line 52: assert_eq!('=', next.as_char());
AssertEqChar ==
    /\ pc = "assert_eq_char"
    /\ AsChar(next[1]) = "="
    /\ pc' = "from_iter"
    /\ UNCHANGED <<attr, item, iter, next, body_tokens, item_iter, tokens, ret, panic, pass, item0>>

AssertEqCharFailed ==
    /\ pc = "assert_eq_char"
    /\ AsChar(next[1]) # "="
    /\ panic' = AssertEqFailed("=", AsChar(next[1]))
    /\ pc' = "panicked"
    /\ UNCHANGED <<attr, item, iter, next, body_tokens, item_iter, tokens, ret, pass, item0>>

\* The body collected from the whole argument, prefix included.
FromIterWholeAttr ==
    /\ pc = "from_iter"
    /\ body_tokens' = attr
    /\ iter' = <<>>
    /\ pc' = "vec_new"
    /\ UNCHANGED <<attr, item, next, item_iter, tokens, ret, panic, pass, item0>>

\* line 53: TokenStream::from_iter(iter)
FromIter ==
    /\ pc = "from_iter"
    /\ body_tokens' = iter
    /\ iter' = <<>>
    /\ pc' = "vec_new"
    /\ UNCHANGED <<attr, item, next, item_iter, tokens, ret, panic, pass, item0>>

(***************************************************************************)
(* Lines 56-80: the item.                                                  *)
(***************************************************************************)
\* line 56, 68: let mut tokens = Vec::new(); for token in item.into_iter()
VecNew ==
    /\ pc = "vec_new"
    /\ tokens' = <<>>
    /\ item_iter' = item
    /\ pc' = "loop"
    /\ UNCHANGED <<attr, item, iter, next, body_tokens, ret, panic, pass, item0>>

\* A loop that copies the leaves only and drops every Group.
LoopPushLeavesOnly ==
    /\ pc = "loop"
    /\ item_iter # <<>>
    /\ ~IsBodyGroup(Head(item_iter))
    /\ tokens' = IF Head(item_iter).kind = "Group" THEN tokens
                 ELSE Append(tokens, Head(item_iter))
    /\ item_iter' = Tail(item_iter)
    /\ UNCHANGED <<attr, item, pc, iter, next, body_tokens, ret, panic, pass, item0>>

\* line 72, 74: tokens.push(TokenTree::Group(group)) / tokens.push(other)
LoopPush ==
    /\ pc = "loop"
    /\ item_iter # <<>>
    /\ ~IsBodyGroup(Head(item_iter))
    /\ tokens' = Append(tokens, Head(item_iter))
    /\ item_iter' = Tail(item_iter)
    /\ UNCHANGED <<attr, item, pc, iter, next, body_tokens, ret, panic, pass, item0>>

\* `continue` in place of `break`: the brace Group is skipped, the scan goes on.
LoopBreakContinues ==
    /\ pc = "loop"
    /\ item_iter # <<>>
    /\ IsBodyGroup(Head(item_iter))
    /\ item_iter' = Tail(item_iter)
    /\ UNCHANGED <<attr, item, pc, iter, next, body_tokens, tokens, ret, panic, pass, item0>>

\* line 71: Delimiter::Brace => break
LoopBreak ==
    /\ pc = "loop"
    /\ item_iter # <<>>
    /\ IsBodyGroup(Head(item_iter))
    /\ item_iter' = Tail(item_iter)
    /\ pc' = "push_body"
    /\ UNCHANGED <<attr, item, iter, next, body_tokens, tokens, ret, panic, pass, item0>>

\* line 68: the iterator is exhausted
LoopEnd ==
    /\ pc = "loop"
    /\ item_iter = <<>>
    /\ pc' = "push_body"
    /\ UNCHANGED <<attr, item, iter, next, body_tokens, item_iter, tokens, ret, panic, pass, item0>>

\* The body Group built with parentheses.
PushBodyParenthesis ==
    /\ pc = "push_body"
    /\ tokens' = Append(tokens, Group("Parenthesis", body_tokens))
    /\ pc' = "return"
    /\ UNCHANGED <<attr, item, iter, next, body_tokens, item_iter, ret, panic, pass, item0>>

\* The body Group inserted in front of the copied tokens.
PushBodyFirst ==
    /\ pc = "push_body"
    /\ tokens' = <<Group("Brace", body_tokens)>> \o tokens
    /\ pc' = "return"
    /\ UNCHANGED <<attr, item, iter, next, body_tokens, item_iter, ret, panic, pass, item0>>

\* line 78: tokens.push(TokenTree::Group(Group::new(Delimiter::Brace, body_tokens)))
PushBody ==
    /\ pc = "push_body"
    /\ tokens' = Append(tokens, Group("Brace", body_tokens))
    /\ pc' = "return"
    /\ UNCHANGED <<attr, item, iter, next, body_tokens, item_iter, ret, panic, pass, item0>>

\* line 80: TokenStream::from_iter(tokens)
Return ==
    /\ pc = "return"
    /\ ret' = tokens
    /\ pc' = "done"
    /\ UNCHANGED <<attr, item, iter, next, body_tokens, item_iter, tokens, panic, pass, item0>>

\* line 39-40: the macro is expanded again, on the item it returned.
Reinvoke ==
    /\ pc = "done"
    /\ pass < MaxPasses
    /\ \E a \in CoreAttrs : attr' = a
    /\ item' = ret
    /\ pass' = pass + 1
    /\ pc' = "attr_is_empty"
    /\ iter' = <<>>
    /\ next' = <<>>
    /\ body_tokens' = <<>>
    /\ item_iter' = <<>>
    /\ tokens' = <<>>
    /\ ret' = <<>>
    /\ UNCHANGED <<panic, item0>>

Next ==
    \/ AttrIsEmpty
    \/ AttrIntoIter
    \/ NextIdent
    \/ NextIdentElse
    \/ AssertValue
    \/ AssertValueFailed
    \/ NextPunct
    \/ NextPunctElse
    \/ AssertEqChar
    \/ AssertEqCharFailed
    \/ FromIter
    \/ VecNew
    \/ LoopPush
    \/ LoopBreak
    \/ LoopEnd
    \/ PushBody
    \/ Return
    \/ Reinvoke

Spec == Init /\ [][Next]_vars

\* The expansion is a single synchronous call: it runs to completion.
FairSpec == Spec /\ WF_vars(Next)

(***************************************************************************)
(* Sanity of the model.                                                    *)
(***************************************************************************)
TypeOK ==
    /\ pc \in {"attr_is_empty", "next_ident", "assert_value", "next_punct",
               "assert_eq_char", "from_iter", "vec_new", "loop", "push_body",
               "return", "done", "panicked"}
    /\ pass \in 1..MaxPasses
    /\ Len(tokens) <= Len(item) + 1

\* The step machine and Rewrite agree on every completed expansion.
RewriteAgrees == pc = "done" => ret = Rewrite(item, body_tokens)

(***************************************************************************)
(* Vocabulary of the properties. It is stated on the tokens themselves and *)
(* shares nothing with the definitions above.                              *)
(***************************************************************************)
IsBraceGroup(t) == t.kind = "Group" /\ t.delimiter = "Brace"

HasBrace(s) == \E i \in 1..Len(s) : IsBraceGroup(s[i])

\* Index of the first top-level brace Group of s (s has one).
FirstBrace(s) ==
    CHOOSE i \in 1..Len(s) :
        IsBraceGroup(s[i]) /\ \A j \in 1..(i - 1) : ~IsBraceGroup(s[j])

BeforeBody(s) == SubSeq(s, 1, FirstBrace(s) - 1)

Front(s) == SubSeq(s, 1, Len(s) - 1)

Last(s) == s[Len(s)]

BraceIndexes(s) == {i \in 1..Len(s) : IsBraceGroup(s[i])}

GroupIndexes(s) == {i \in 1..Len(s) : s[i].kind = "Group"}

LiteralText(t) == IF t.raw THEN "r#" \o t.text ELSE t.text

IsValueIdent(t) == t.kind = "Ident" /\ LiteralText(t) = "value"

IsEqPunct(t) == t.kind = "Punct" /\ t.ch = "="

\* The argument has been interpreted and the item is being rewritten.
Interpreted == pc \in {"vec_new", "loop", "push_body", "return", "done"}

MalformedArgument ==
    /\ pc = "panicked"
    /\ panic = [msg |-> "invalid attr argument", left |-> "", right |-> ""]
    /\ ret = <<>>

UnexpectedKeyword(actual) ==
    /\ pc = "panicked"
    /\ panic.left = "value"
    /\ panic.right = actual
    /\ panic.msg # "invalid attr argument"
    /\ ret = <<>>

\* The expansion is over: it returned or it panicked.
Finished == pc \in {"done", "panicked"}

Scanning == pc = "loop"

DoneScanning == pc \in {"push_body", "return", "done"}

(***************************************************************************)
(* C1: when the item has a top-level brace Group, the output without its   *)
(* final token is the item's tokens strictly before the first top-level   *)
(* brace Group, same tokens in the same order; non-brace Groups of that    *)
(* prefix are copied whole, nested brace Groups included.                  *)
(***************************************************************************)
C1_PrefixPreserved ==
    (pc = "done" /\ HasBrace(item)) =>
        /\ Len(ret) >= 1
        /\ Front(ret) = BeforeBody(item)

C1_Witness ==
    /\ pc = "done"
    /\ HasBrace(item)
    /\ FirstBrace(item) = 3
    /\ item[2] = Group("Parenthesis", <<Group("Brace", <<>>)>>)
    /\ ret[2] = item[2]

(***************************************************************************)
(* C2 as stated: the output contains exactly one top-level Group, it is    *)
(* brace-delimited and its contents are the replacement body.              *)
(***************************************************************************)
C2_ExactlyOneGroup ==
    pc = "done" =>
        /\ Cardinality(GroupIndexes(ret)) = 1
        /\ \A i \in GroupIndexes(ret) :
               ret[i].delimiter = "Brace" /\ ret[i].stream = body_tokens

(***************************************************************************)
(* C2 amended: the output contains exactly one top-level brace-delimited   *)
(* Group and its contents are the replacement body; top-level Groups of    *)
(* other delimiters copied from the item may stand before it.              *)
(***************************************************************************)
C2_ExactlyOneBraceGroup ==
    pc = "done" =>
        /\ Cardinality(BraceIndexes(ret)) = 1
        /\ \A i \in BraceIndexes(ret) : ret[i].stream = body_tokens

C2_Witness ==
    /\ pc = "done"
    /\ Cardinality(GroupIndexes(ret)) > 1
    /\ Cardinality(BraceIndexes(ret)) = 1

(***************************************************************************)
(* C3: whatever the number of top-level brace Groups of the item, the      *)
(* output's last token is a brace Group holding exactly the replacement    *)
(* body, and no other top-level token of the output is a brace Group.      *)
(***************************************************************************)
C3_TrailingBodyGroup ==
    pc = "done" =>
        /\ Len(ret) >= 1
        /\ Last(ret) = [kind |-> "Group", delimiter |-> "Brace",
                        stream |-> body_tokens]
        /\ \A i \in 1..(Len(ret) - 1) : ~IsBraceGroup(ret[i])

C3_Witness ==
    /\ pc = "done"
    /\ Cardinality(BraceIndexes(item)) >= 2
    /\ BraceIndexes(ret) = {Len(ret)}

(***************************************************************************)
(* C4: with an empty argument the body is always the tokens of             *)
(* Default::default(), whatever the item and whatever was expanded         *)
(* before, and the body Group of the rewritten item holds exactly them.    *)
(***************************************************************************)
C4_DefaultTokens ==
    << [kind |-> "Ident", text |-> "Default", raw |-> FALSE],
       [kind |-> "Punct", ch |-> ":", spacing |-> "Joint"],
       [kind |-> "Punct", ch |-> ":", spacing |-> "Alone"],
       [kind |-> "Ident", text |-> "default", raw |-> FALSE],
       [kind |-> "Group", delimiter |-> "Parenthesis", stream |-> <<>>] >>

C4_EmptyArgumentDefault ==
    attr = <<>> =>
        /\ pc # "panicked"
        /\ Interpreted => body_tokens = C4_DefaultTokens
        /\ pc = "done" =>
               Last(ret) = [kind |-> "Group", delimiter |-> "Brace",
                            stream |-> C4_DefaultTokens]

C4_Witness ==
    /\ attr = <<>>
    /\ pc = "done"
    /\ pass = 2
    /\ Last(item).stream # C4_DefaultTokens
    /\ Last(ret).stream = C4_DefaultTokens

(***************************************************************************)
(* C5: for an argument `value` `=` R the interpretation succeeds and the   *)
(* body is exactly R, the tokens after the two-token prefix in their       *)
(* order, whatever R holds; R is the contents of the new body Group.       *)
(***************************************************************************)
C5_Rest == SubSeq(attr, 3, Len(attr))

C5_ValueArgument ==
    (Len(attr) >= 2 /\ IsValueIdent(attr[1]) /\ IsEqPunct(attr[2])) =>
        /\ pc # "panicked"
        /\ Interpreted => body_tokens = C5_Rest
        /\ pc = "done" =>
               Last(ret) = [kind |-> "Group", delimiter |-> "Brace",
                            stream |-> C5_Rest]

C5_Witness ==
    /\ pc = "done"
    /\ Len(attr) >= 3
    /\ IsValueIdent(attr[1])
    /\ IsEqPunct(attr[2])
    /\ \E i \in 3..Len(attr) : IsBraceGroup(attr[i]) \/ IsEqPunct(attr[i])
    /\ Last(ret).stream = C5_Rest

C7_UnexpectedKeyword ==
    (attr # <<>> /\ attr[1].kind = "Ident" /\ LiteralText(attr[1]) # "value") =>
        /\ ~Interpreted
        /\ pc \in {"attr_is_empty", "next_ident", "assert_value", "panicked"}
        /\ pc = "panicked" => UnexpectedKeyword(LiteralText(attr[1]))

C7_Witness ==
    /\ pc = "panicked"
    /\ Len(attr) = 3
    /\ attr[1] = [kind |-> "Ident", text |-> "other", raw |-> FALSE]
    /\ IsEqPunct(attr[2])
    /\ UnexpectedKeyword("other")

(***************************************************************************)
(* C8: the scan goes from SCANNING to DONE and never back. It leaves       *)
(* SCANNING at the first top-level brace Group, or when the item is        *)
(* exhausted, without copying anything; while SCANNING each step copies    *)
(* the next token, which is no brace Group; once DONE the only append is   *)
(* the one body Group, so the output is one token longer than the part of  *)
(* the item before its first top-level brace Group.                        *)
(***************************************************************************)
C8_Step ==
    /\ (Scanning /\ item_iter # <<>> /\ IsBraceGroup(Head(item_iter)))
           => (DoneScanning' /\ tokens' = tokens)
    /\ (Scanning /\ item_iter = <<>>) => (DoneScanning' /\ tokens' = tokens)
    /\ (Scanning /\ item_iter # <<>> /\ ~IsBraceGroup(Head(item_iter)))
           => (Scanning' /\ tokens' = Append(tokens, Head(item_iter)))
    /\ (DoneScanning /\ pass' = pass)
           => /\ DoneScanning'
              /\ item_iter' = item_iter
              /\ IF pc = "push_body"
                 THEN tokens' = Append(tokens, [kind |-> "Group",
                                                delimiter |-> "Brace",
                                                stream |-> body_tokens])
                 ELSE tokens' = tokens
    /\ (pc' = "done" /\ HasBrace(item'))
           => (Len(ret') = FirstBrace(item') /\ Front(ret') = BeforeBody(item'))

C8_ScanStopsForGood == [][C8_Step]_vars

C8_Witness ==
    /\ pc = "done"
    /\ Len(item) = 3
    /\ IsBraceGroup(item[1])
    /\ item[2].kind = "Ident"
    /\ IsBraceGroup(item[3])
    /\ Len(ret) = 1

(***************************************************************************)
(* C9: the rewriting never fails and always returns; when the item has no  *)
(* top-level brace Group the output is the whole item followed by one new  *)
(* brace Group holding the body, one token longer than the item.           *)
(***************************************************************************)
C9_NoBodyOutput ==
    /\ Interpreted => panic = [msg |-> "", left |-> "", right |-> ""]
    /\ (pc = "done" /\ ~HasBrace(item)) =>
           /\ ret = item \o << [kind |-> "Group", delimiter |-> "Brace",
                                stream |-> body_tokens] >>
           /\ Len(ret) = Len(item) + 1

C9_Total == []C9_NoBodyOutput /\ ((pc = "vec_new") ~> (pc = "done"))

C9_Witness ==
    /\ pc = "done"
    /\ Len(item) = 3
    /\ ~HasBrace(item)
    /\ \E i \in 1..3 : item[i].kind = "Group"
    /\ Len(ret) = 4

(***************************************************************************)
(* C10: rewriting the output of a rewriting gives what rewriting the       *)
(* original item with the last body gives:                                 *)
(* rewrite(rewrite(I, B1), B2) = rewrite(I, B2), also when B1 holds brace  *)
(* Groups.                                                                 *)
(***************************************************************************)
C10_Reapplied ==
    (pc = "done" /\ pass >= 2) =>
        /\ ret = Rewrite(item0, body_tokens)
        /\ Front(ret) = Front(item)

C10_Witness ==
    /\ pc = "done"
    /\ pass = 2
    /\ HasBrace(Last(item).stream)
    /\ Last(item).stream # body_tokens
    /\ ret = Rewrite(item0, body_tokens)

====
